---------------------------- MODULE Spec2Model ----------------------------
(***************************************************************************)
(* Repair SLA analysis (LiinAcero/LenovoTask2): the business-day          *)
(* calculation of the three scripts lenovo_task.py, puthon_task.py and     *)
(* python_task_solution.py, the Task 3 pipeline that uses it (load,       *)
(* business days, lead-time merge, Hit/Miss, table per country), and the   *)
(* sources of the holiday table of Task 1a (API, CSV file, CSV text),      *)
(* the calls on HolidayDataFetcher (SpecFetcher) and main of               *)
(* lenovo_task.py from its first statement to its last (SpecMain).         *)
(*                                                                         *)
(* A calendar date is an integer: the number of days after 2020-01-01,     *)
(* the first date of YEARS.  Day 0 is a Wednesday, day 3 a Saturday.       *)
(***************************************************************************)
EXTENDS Integers, Sequences, FiniteSets, TLC

VARIABLES
    holidays_df,             \* the holiday table: a sequence of rows [countryCode, date]
    holiday_set_by_country,  \* lenovo_task: RepairAnalysisEngine.holiday_set_by_country
    holiday_calendar,        \* python_task_solution: holiday_calendar (drop_duplicates)
    start_date,              \* SpecCalc: the interval and country a call is made with
    end_date,
    country,
    call,                    \* SpecCalc: the call made and what it returned, or NoCall
    script,                  \* Spec: which of the three scripts runs
    pc,                      \* Spec: the next Task 3 step of the script
    repair_data,             \* Spec: the RawData table (with BusinessDays after task 3b)
    lead_times_df,           \* Spec: the LeadTimes table, once read
    results_df,              \* Spec: the merged table (with Status after task 3d)
    aggregation_df,          \* Spec: the per-country table of task 3e, once built
    api_responses,           \* SpecFetch: what the holiday API answers to each request
    csv_file,                \* SpecFetch: the holiday CSV file on disk, if there is one
    csv_read,                \* HolidayDataFetcher: whether fetch_from_csv was called
    raised,                  \* the exception the last call raised, or NoException
    data,                    \* HolidayDataFetcher.data: NoFrame (None) or Frame(table)
    files,                   \* the output files written so far
    history                  \* SpecHistory, SpecSplit, SpecFetcher: the calls made so far,
                             \* with what they returned; SpecMain: the failures printed

vars == <<holidays_df, holiday_set_by_country, holiday_calendar, start_date, end_date,
          country, call, script, pc, repair_data, lead_times_df, results_df,
          aggregation_df, api_responses, csv_file, csv_read, raised, data, files,
          history>>

calcVars == <<start_date, end_date, country, call>>
pipeVars == <<script, pc, repair_data, lead_times_df, results_df>>
holidayVars == <<holidays_df, holiday_set_by_country, holiday_calendar>>
aggVars == <<aggregation_df>>
fetchVars == <<api_responses, csv_file, csv_read, raised, data, files>>
histVars == <<history>>

---------------------------------------------------------------------------
(* Bounds of the model *)

\* Start dates are 0..MaxStart: seven consecutive days, one of every day of week.
MaxStart == 6
\* End dates are 0..MaxDay, so [start, start+6] fits for every start date.
MaxDay == 12
\* The holiday table has at most MaxFeed rows (rows may repeat).
MaxFeed == 2
\* The RawData table has at most MaxRecords rows.
MaxRecords == 2
\* The LeadTimes table has at most MaxLead rows.
MaxLead == 2
\* SpecHistory: at most MaxCalls calls of the business-day functions are made.
MaxCalls == 3
\* SpecFetcher: at most MaxFetcherCalls calls are made on the fetcher.
MaxFetcherCalls == 3
\* SpecSplit: the dates of an interval are 0..MaxSplitDay.
MaxSplitDay == 8
\* SpecAgg: a country has at most MaxHit records within and MaxMiss records
\* beyond its lead time.
MaxHit == 7
MaxMiss == 3
\* The holiday API answers a request with at most MaxApi holidays.
MaxApi == 1
\* The holiday CSV file has at most MaxCsv rows.
MaxCsv == 1

StartDates == 0..MaxStart
EndDates == 0..MaxDay

None == "None"
\* A LeadTime cell: NaN (no value), or Num(v) for the number v.
NaN == {}
Num(v) == {v}
NoCall == [fn |-> "none"]
\* no holiday CSV file on disk; a file with table t is File(t)
NoFile == {}
File(t) == {t}
\* a function that returns a table or None: NoFrame, or Frame(t) for table t
NoFrame == {}
Frame(t) == {t}
FrameOf(x) == CHOOSE t \in x : TRUE
\* no exception raised
NoException == "none"
\* no request sent to the holiday API
NoRequests == <<>>

---------------------------------------------------------------------------
(* Configuration *)

COUNTRIES == {"AT", "DE", "SK", "CZ"}

COUNTRY_MAPPING ==
    [n \in {"Slovakia", "Czechia", "Austria", "Germany"} |->
        CASE n = "Slovakia" -> "SK"
          [] n = "Czechia" -> "CZ"
          [] n = "Austria" -> "AT"
          [] n = "Germany" -> "DE"]

\* puthon_task's own copy of the table, local to calculate_business_days
country_code_map ==
    [n \in {"Slovakia", "Czechia", "Austria", "Germany"} |->
        CASE n = "Slovakia" -> "SK"
          [] n = "Czechia" -> "CZ"
          [] n = "Austria" -> "AT"
          [] n = "Germany" -> "DE"]

\* dict.get(key): the value, or None when the key is absent
DictGet(dict, key) == IF key \in DOMAIN dict THEN dict[key] ELSE None

---------------------------------------------------------------------------
(* Calendar *)

\* date(2020, 1, 1).toordinal()
EpochOrdinal == 737425

\* date.weekday() / Timestamp.weekday(): Monday is 0, Sunday is 6;
\* CPython computes (toordinal() + 6) % 7
weekday(d) == (EpochOrdinal + d + 6) % 7

\* date_range with the end date left out
date_range_exclusive(start, end) ==
    IF start < end THEN [i \in 1..(end - start) |-> start + i - 1] ELSE <<>>

\* pd.date_range(start, end, freq='D'): every day from start to end, both
\* included; empty when end is before start
date_range(start, end) ==
    IF start <= end THEN [i \in 1..(end - start + 1) |-> start + i - 1] ELSE <<>>


---------------------------------------------------------------------------
(* The holiday table *)

\* Country codes and dates of the rows a holiday table is drawn from: two of
\* the four COUNTRIES (the other two then have no holiday at all), and
\* 2020-01-01 (Wednesday), 2020-01-04 (Saturday), 2020-01-06 (Monday).
FeedCodes == {"AT", "SK"}
FeedDates == {0, 3, 5}
HolidayRows == [countryCode : FeedCodes, date : FeedDates]
HolidayTables == UNION {[1..n -> HolidayRows] : n \in 0..MaxFeed}

\* RepairAnalysisEngine._prepare_holiday_lookup: one set of dates per code of
\* COUNTRIES, from the rows of holidays_df with that countryCode
prepare_holiday_lookup(df) ==
    [country_code \in COUNTRIES |->
        {df[i].date : i \in {j \in DOMAIN df : df[j].countryCode = country_code}}]

\* DataFrame.drop_duplicates(): the rows in order, each kept at its first
\* occurrence only
drop_duplicates(df) ==
    LET first(i) == \A j \in 1..(i - 1) : df[j] # df[i]
        kept == {i \in DOMAIN df : first(i)}
        rank(i) == Cardinality({j \in kept : j <= i})
    IN  [k \in 1..Cardinality(kept) |-> df[CHOOSE i \in kept : rank(i) = k]]

\* the dates of all rows, whatever their country
dates_of_any_country(df, code) == [i \in DOMAIN df |-> df[i].date]

\* df[df[column] == code]['date'] as a list: the dates of the rows of that
\* country, in order, repeats kept
dates_of_country(df, code) ==
    LET sel == SelectSeq(df, LAMBDA r : r.countryCode = code)
    IN  [i \in DOMAIN sel |-> sel[i].date]

---------------------------------------------------------------------------
(* lenovo_task.py: RepairAnalysisEngine._calculate_business_days *)

\* the loop with Saturday taken for a weekday (weekday() <= 5)
RECURSIVE lenovo_count_loop_saturday(_, _, _)
lenovo_count_loop_saturday(all_days, holidays, i) ==
    IF i > Len(all_days) THEN 0
    ELSE (IF weekday(all_days[i]) <= 5 /\ all_days[i] \notin holidays THEN 1 ELSE 0)
         + lenovo_count_loop_saturday(all_days, holidays, i + 1)

\* the loop over all_days from position i on: one more business day for every
\* day that is Monday..Friday and not in holidays
RECURSIVE lenovo_count_loop(_, _, _)
lenovo_count_loop(all_days, holidays, i) ==
    IF i > Len(all_days) THEN 0
    ELSE (IF weekday(all_days[i]) < 5 /\ all_days[i] \notin holidays THEN 1 ELSE 0)
         + lenovo_count_loop(all_days, holidays, i + 1)

\* the lookup read under the country name, not under its code
lenovo_calculate_business_days_by_name(lookup, start, end, country_name) ==
    LET holidays == IF country_name \in DOMAIN lookup THEN lookup[country_name] ELSE {}
        all_days == date_range(start, end)
    IN  lenovo_count_loop(all_days, holidays, 1)

lenovo_calculate_business_days(lookup, start, end, country_name) ==
    LET country_code == DictGet(COUNTRY_MAPPING, country_name)
        holidays == IF country_code \in DOMAIN lookup THEN lookup[country_code] ELSE {}
        all_days == date_range(start, end)
    IN  lenovo_count_loop(all_days, holidays, 1)

---------------------------------------------------------------------------
(* puthon_task.py: calculate_business_days *)

\* date in list
InList(x, list) == \E k \in DOMAIN list : list[k] = x

\* the loop with one day taken off for every row of the holiday list on a day
RECURSIVE puthon_count_loop_per_row(_, _, _)
puthon_count_loop_per_row(dates, country_holidays, i) ==
    IF i > Len(dates) THEN 0
    ELSE (IF weekday(dates[i]) < 5 THEN 1 ELSE 0)
         - Cardinality({k \in DOMAIN country_holidays : country_holidays[k] = dates[i]})
         + puthon_count_loop_per_row(dates, country_holidays, i + 1)

RECURSIVE puthon_count_loop(_, _, _)
puthon_count_loop(dates, country_holidays, i) ==
    IF i > Len(dates) THEN 0
    ELSE (IF weekday(dates[i]) < 5 /\ ~InList(dates[i], country_holidays) THEN 1 ELSE 0)
         + puthon_count_loop(dates, country_holidays, i + 1)

calculate_business_days(df, start, end, country_name) ==
    LET dates == date_range(start, end)
        country_code == DictGet(country_code_map, country_name)
    IN  IF country_code = None
        THEN Len(dates)
        ELSE puthon_count_loop(dates, dates_of_country(df, country_code), 1)

---------------------------------------------------------------------------
(* python_task_solution.py: business_days, on numpy.busday_count *)

\* days from 1970-01-01, numpy's datetime64[D] epoch, to 2020-01-01
UnixEpochDays == 18262

\* numpy get_day_of_week: 1970-01-01 is a Thursday; Monday is 0
get_day_of_week(d) == (UnixEpochDays + d - 4) % 7

\* numpy normalises the holidays of a call: sorted, repeats removed, the dates
\* that are no business day of the week mask (Saturday, Sunday) dropped
RECURSIVE sorted_list(_)
sorted_list(S) ==
    IF S = {} THEN <<>>
    ELSE LET m == CHOOSE x \in S : \A y \in S : x <= y
         IN  <<m>> \o sorted_list(S \ {m})

normalize_holidays_list(holidays) ==
    sorted_list({holidays[i] : i \in {j \in DOMAIN holidays : get_day_of_week(holidays[j]) < 5}})

\* numpy find_earliest_holiday_on_or_after: the position (from 0) of the
\* first holiday on or after the date in the sorted list
find_earliest_holiday_on_or_after(d, holidays) ==
    Cardinality({i \in DOMAIN holidays : holidays[i] < d})

\* the days of [date_begin, date_end) counted one by one
RECURSIVE busday_remaining(_, _)
busday_remaining(date_begin, date_end) ==
    IF date_begin >= date_end THEN 0
    ELSE (IF get_day_of_week(date_begin) < 5 THEN 1 ELSE 0)
         + busday_remaining(date_begin + 1, date_end)

\* busday_count without the sign: the days between the two dates, whichever
\* comes first
busday_count_unsigned(shifted, begindate, enddate, holidays_in) ==
    LET holidays == normalize_holidays_list(holidays_in)
        swapped == begindate > enddate
        date_begin == IF swapped THEN (IF shifted THEN enddate + 1 ELSE enddate)
                      ELSE begindate
        date_end == IF swapped THEN (IF shifted THEN begindate + 1 ELSE begindate)
                    ELSE enddate
        holidays_begin == find_earliest_holiday_on_or_after(date_begin, holidays)
        holidays_end == find_earliest_holiday_on_or_after(date_end, holidays)
        whole_weeks == (date_end - date_begin) \div 7
    IN  IF begindate = enddate THEN 0
        ELSE (whole_weeks * 5 - (holidays_end - holidays_begin))
             + busday_remaining(date_begin + whole_weeks * 7, date_end)

\* numpy.busday_count(begindate, enddate, holidays): the business days of
\* [begindate, enddate).  With enddate before begindate the two are swapped and
\* the count negated; numpy >= 1.25 (gh-23197) then also moves both by one day,
\* earlier releases do not: shifted tells which numpy the build has.
busday_count(shifted, begindate, enddate, holidays_in) ==
    LET holidays == normalize_holidays_list(holidays_in)
        swapped == begindate > enddate
        date_begin == IF swapped THEN (IF shifted THEN enddate + 1 ELSE enddate)
                      ELSE begindate
        date_end == IF swapped THEN (IF shifted THEN begindate + 1 ELSE begindate)
                    ELSE enddate
        holidays_begin == find_earliest_holiday_on_or_after(date_begin, holidays)
        holidays_end == find_earliest_holiday_on_or_after(date_end, holidays)
        whole_weeks == (date_end - date_begin) \div 7
        count == (whole_weeks * 5 - (holidays_end - holidays_begin))
                 + busday_remaining(date_begin + whole_weeks * 7, date_end)
    IN  IF begindate = enddate THEN 0
        ELSE IF swapped THEN 0 - count ELSE count

\* business_days without the day added to the end date
business_days_end_left_out(calendar, shifted, start, end, country_code) ==
    LET country_holidays == dates_of_country(calendar, country_code)
    IN  busday_count(shifted, start, end, country_holidays)

business_days(calendar, shifted, start, end, country_code) ==
    LET country_holidays == dates_of_country(calendar, country_code)
    IN  busday_count(shifted, start, end + 1, country_holidays)

---------------------------------------------------------------------------
(* Inputs *)

\* Country names a record or a call may carry: three of the four mapped
\* names, and one that COUNTRY_MAPPING does not hold.
InputCountries == {"Austria", "Slovakia", "Germany", "Poland"}

\* The CountryCode column python_task_solution.py reads beside Country: the
\* ISO code of the country of the row.
FileCountryCode(country_name) ==
    CASE country_name = "Austria" -> "AT"
      [] country_name = "Slovakia" -> "SK"
      [] country_name = "Germany" -> "DE"
      [] country_name = "Czechia" -> "CZ"
      [] OTHER -> "PL"

---------------------------------------------------------------------------
(* SpecCalc: one call of the business-day function of one of the scripts, *)
(* on a holiday table, an interval and a country drawn at the start       *)

InitCalc ==
    /\ holidays_df \in HolidayTables
    /\ holiday_set_by_country = prepare_holiday_lookup(holidays_df)
    /\ holiday_calendar = drop_duplicates(holidays_df)
    /\ start_date \in StartDates
    /\ end_date \in EndDates
    /\ country \in InputCountries
    /\ call = NoCall
    /\ script = None
    /\ pc = "calc"
    /\ repair_data = None
    /\ lead_times_df = None
    /\ results_df = None
    /\ aggregation_df = None
    /\ api_responses = NoRequests
    /\ csv_file = NoFile
    /\ csv_read = FALSE
    /\ raised = NoException
    /\ data = NoFrame
    /\ files = {}
    /\ history = <<>>

CallLenovo ==
    /\ pc = "calc"
    /\ call.fn = "none"
    /\ call' = [fn |-> "lenovo",
                result |-> lenovo_calculate_business_days(
                               holiday_set_by_country, start_date, end_date, country)]
    /\ UNCHANGED <<aggVars, fetchVars, histVars, holidayVars, start_date, end_date, country, pipeVars>>

CallPuthon ==
    /\ pc = "calc"
    /\ call.fn = "none"
    /\ call' = [fn |-> "puthon",
                result |-> calculate_business_days(
                               holidays_df, start_date, end_date, country)]
    /\ UNCHANGED <<aggVars, fetchVars, histVars, holidayVars, start_date, end_date, country, pipeVars>>

CallSolution ==
    /\ pc = "calc"
    /\ call.fn = "none"
    /\ \E shifted \in BOOLEAN :
          call' = [fn |-> "solution",
                   shifted |-> shifted,
                   result |-> business_days(holiday_calendar, shifted, start_date,
                                            end_date, FileCountryCode(country))]
    /\ UNCHANGED <<aggVars, fetchVars, histVars, holidayVars, start_date, end_date, country, pipeVars>>

NextCalc == CallLenovo \/ CallPuthon \/ CallSolution

SpecCalc == InitCalc /\ [][NextCalc]_vars

---------------------------------------------------------------------------
(* The Task 3 tables *)

\* Rows of the RawData sheet: a country, and an interval that is a full week
\* from Wednesday 2020-01-01 or runs backwards from 2020-01-07 to 2020-01-01.
RecordCountries == {"Austria", "Germany", "Poland"}
RecordIntervals == {<<0, 6>>, <<6, 0>>}
RepairRows ==
    {[Country |-> c, CountryCode |-> FileCountryCode(c),
      Start_Date |-> iv[1], End_Date |-> iv[2]] :
        c \in RecordCountries, iv \in RecordIntervals}
RepairTables == UNION {[1..n -> RepairRows] : n \in 0..MaxRecords}

\* Rows of the LeadTimes sheet.
LeadCountries == {"Austria", "Germany"}
LeadValues == {0, 4}
LeadRows ==
    {[Country |-> c, CountryCode |-> FileCountryCode(c), LeadTime |-> v] :
        c \in LeadCountries, v \in LeadValues}
LeadTables == UNION {[1..n -> LeadRows] : n \in 0..MaxLead}

\* Holiday tables the pipeline runs on: none, or 2020-01-01 for Austria.
PipelineHolidayTables == {<<>>, <<[countryCode |-> "AT", date |-> 0]>>}

Scripts == {"lenovo", "puthon", "solution"}

\* a table with column BusinessDays set to the values computed row by row
\* (DataFrame.apply, axis=1)
WithBusinessDays(table, days) ==
    [i \in DOMAIN table |->
        [Country |-> table[i].Country, CountryCode |-> table[i].CountryCode,
         Start_Date |-> table[i].Start_Date, End_Date |-> table[i].End_Date,
         BusinessDays |-> days[i]]]

\* a left row joined with a LeadTime cell
Joined(row, cell) ==
    [Country |-> row.Country, CountryCode |-> row.CountryCode,
     Start_Date |-> row.Start_Date, End_Date |-> row.End_Date,
     BusinessDays |-> row.BusinessDays, LeadTime |-> cell]

\* the merge as an inner join: a left row with no right row is dropped
RECURSIVE merge_inner(_, _, _, _)
merge_inner(left, right, key, i) ==
    IF i > Len(left) THEN <<>>
    ELSE LET matches == SelectSeq(right, LAMBDA r : r[key] = left[i][key])
         IN  [k \in DOMAIN matches |-> Joined(left[i], Num(matches[k].LeadTime))]
             \o merge_inner(left, right, key, i + 1)

\* pd.merge(left, right, on=key, how='left'): the left rows in order, each
\* joined with every right row of the same key, in the right table's order;
\* a left row with no right row is kept once, with LeadTime NaN
RECURSIVE merge_left(_, _, _, _)
merge_left(left, right, key, i) ==
    IF i > Len(left) THEN <<>>
    ELSE LET matches == SelectSeq(right, LAMBDA r : r[key] = left[i][key])
             rows == IF matches = <<>>
                     THEN <<Joined(left[i], NaN)>>
                     ELSE [k \in DOMAIN matches |->
                              Joined(left[i], Num(matches[k].LeadTime))]
         IN  rows \o merge_left(left, right, key, i + 1)

\* a table with column Status set to the values computed row by row
WithStatus(table, status) ==
    [i \in DOMAIN table |->
        [Country |-> table[i].Country, CountryCode |-> table[i].CountryCode,
         Start_Date |-> table[i].Start_Date, End_Date |-> table[i].End_Date,
         BusinessDays |-> table[i].BusinessDays, LeadTime |-> table[i].LeadTime,
         Status |-> status[i]]]

\* x <= y on a number x and a cell y: False when y is NaN
LessEqualCell(x, cell) == \E v \in cell : x <= v

---------------------------------------------------------------------------
(* lenovo_task.py: main's Task 3 steps on RepairAnalysisEngine *)

\* load_repair_data: raises when the Excel file is missing or unreadable
load_repair_data ==
    /\ script = "lenovo" /\ pc = "load"
    /\ \/ \E df \in RepairTables :
             /\ repair_data' = df
             /\ pc' = "business_days"
       \/ /\ pc' = "failed"
          /\ UNCHANGED repair_data
    /\ UNCHANGED <<aggVars, fetchVars, histVars, holidayVars, calcVars, script, lead_times_df, results_df>>

\* Task 3b with a lookup that is used up: the holidays of a country are
\* dropped from the lookup once its records are counted
calculate_all_business_days_using_up ==
    /\ script = "lenovo" /\ pc = "business_days"
    /\ repair_data' =
          WithBusinessDays(repair_data,
              [i \in DOMAIN repair_data |->
                  lenovo_calculate_business_days(
                      holiday_set_by_country, repair_data[i].Start_Date,
                      repair_data[i].End_Date, repair_data[i].Country)])
    /\ holiday_set_by_country' =
          [code \in DOMAIN holiday_set_by_country |->
              IF \E i \in DOMAIN repair_data : repair_data[i].CountryCode = code
              THEN {} ELSE holiday_set_by_country[code]]
    /\ pc' = "merge"
    /\ UNCHANGED <<aggVars, fetchVars, histVars, holidays_df, holiday_calendar, calcVars,
                   script, lead_times_df, results_df>>

calculate_all_business_days ==
    /\ script = "lenovo" /\ pc = "business_days"
    /\ repair_data' =
          WithBusinessDays(repair_data,
              [i \in DOMAIN repair_data |->
                  lenovo_calculate_business_days(
                      holiday_set_by_country, repair_data[i].Start_Date,
                      repair_data[i].End_Date, repair_data[i].Country)])
    /\ pc' = "merge"
    /\ UNCHANGED <<aggVars, fetchVars, histVars, holidayVars, calcVars, script, lead_times_df, results_df>>

\* merge_lead_times: when the LeadTimes sheet cannot be read, lead_times_df
\* stays None and the method raises
merge_lead_times ==
    /\ script = "lenovo" /\ pc = "merge"
    /\ \/ \E sheet \in LeadTables :
             /\ lead_times_df' = sheet
             /\ results_df' = merge_left(repair_data, sheet, "Country", 1)
             /\ pc' = "hit_miss"
       \/ /\ pc' = "failed"
          /\ UNCHANGED <<lead_times_df, results_df>>
    /\ UNCHANGED <<aggVars, fetchVars, histVars, holidayVars, calcVars, script, repair_data>>

\* the status with a strict comparison: a count equal to the lead time a Miss
lenovo_status_strict(row) ==
    IF \E v \in row.LeadTime : row.BusinessDays < v THEN "Hit" ELSE "Miss"

\* 'Hit' if row['BusinessDays'] <= row['LeadTime'] else 'Miss'
lenovo_status(row) ==
    IF LessEqualCell(row.BusinessDays, row.LeadTime) THEN "Hit" ELSE "Miss"

determine_hit_miss ==
    /\ script = "lenovo" /\ pc = "hit_miss"
    /\ results_df' = WithStatus(results_df, [i \in DOMAIN results_df |-> lenovo_status(results_df[i])])
    /\ pc' = "aggregate"
    /\ UNCHANGED <<aggVars, fetchVars, histVars, holidayVars, calcVars, script, repair_data, lead_times_df>>

---------------------------------------------------------------------------
(* puthon_task.py: the Task 3 statements of the script *)

\* Task 3a: raw_data_df and lead_times_df are built from the sheet contents
puthon_task3a ==
    /\ script = "puthon" /\ pc = "load"
    /\ \E df \in RepairTables, sheet \in LeadTables :
          /\ repair_data' = df
          /\ lead_times_df' = sheet
    /\ pc' = "business_days"
    /\ UNCHANGED <<aggVars, fetchVars, histVars, holidayVars, calcVars, script, results_df>>

puthon_task3b ==
    /\ script = "puthon" /\ pc = "business_days"
    /\ repair_data' =
          WithBusinessDays(repair_data,
              [i \in DOMAIN repair_data |->
                  calculate_business_days(
                      holidays_df, repair_data[i].Start_Date,
                      repair_data[i].End_Date, repair_data[i].Country)])
    /\ pc' = "merge"
    /\ UNCHANGED <<aggVars, fetchVars, histVars, holidayVars, calcVars, script, lead_times_df, results_df>>

puthon_task3c ==
    /\ script = "puthon" /\ pc = "merge"
    /\ results_df' = merge_left(repair_data, lead_times_df, "Country", 1)
    /\ pc' = "hit_miss"
    /\ UNCHANGED <<aggVars, fetchVars, histVars, holidayVars, calcVars, script, repair_data, lead_times_df>>

\* 'Hit' if row['BusinessDays'] <= row['LeadTime'] else 'Miss'
puthon_status(row) ==
    IF LessEqualCell(row.BusinessDays, row.LeadTime) THEN "Hit" ELSE "Miss"

puthon_task3d ==
    /\ script = "puthon" /\ pc = "hit_miss"
    /\ results_df' = WithStatus(results_df, [i \in DOMAIN results_df |-> puthon_status(results_df[i])])
    /\ pc' = "aggregate"
    /\ UNCHANGED <<aggVars, fetchVars, histVars, holidayVars, calcVars, script, repair_data, lead_times_df>>

---------------------------------------------------------------------------
(* python_task_solution.py: the Task 3 statements of the script *)

\* Task 3a: pd.read_excel of both sheets; an unreadable file ends the script
solution_task3a ==
    /\ script = "solution" /\ pc = "load"
    /\ \/ \E df \in RepairTables, sheet \in LeadTables :
             /\ repair_data' = df
             /\ lead_times_df' = sheet
             /\ pc' = "business_days"
       \/ /\ pc' = "failed"
          /\ UNCHANGED <<repair_data, lead_times_df>>
    /\ UNCHANGED <<aggVars, fetchVars, histVars, holidayVars, calcVars, script, results_df>>

\* Task 3b: holiday_calendar, then business_days on every row; every call
\* runs on the one numpy of the build
solution_task3b ==
    /\ script = "solution" /\ pc = "business_days"
    /\ holiday_calendar' = drop_duplicates(holidays_df)
    /\ \E shifted \in BOOLEAN :
          repair_data' =
              WithBusinessDays(repair_data,
                  [i \in DOMAIN repair_data |->
                      business_days(
                          drop_duplicates(holidays_df), shifted,
                          repair_data[i].Start_Date, repair_data[i].End_Date,
                          repair_data[i].CountryCode)])
    /\ pc' = "merge"
    /\ UNCHANGED <<aggVars, fetchVars, histVars, holidays_df, holiday_set_by_country, calcVars, script,
                   lead_times_df, results_df>>

solution_task3c ==
    /\ script = "solution" /\ pc = "merge"
    /\ results_df' = merge_left(repair_data, lead_times_df, "CountryCode", 1)
    /\ pc' = "hit_miss"
    /\ UNCHANGED <<aggVars, fetchVars, histVars, holidayVars, calcVars, script, repair_data, lead_times_df>>

\* np.where(merged["BusinessDays"] <= merged["LeadTime"], "Hit", "Miss")
solution_result(row) ==
    IF LessEqualCell(row.BusinessDays, row.LeadTime) THEN "Hit" ELSE "Miss"

solution_task3d ==
    /\ script = "solution" /\ pc = "hit_miss"
    /\ results_df' = WithStatus(results_df, [i \in DOMAIN results_df |-> solution_result(results_df[i])])
    /\ pc' = "aggregate"
    /\ UNCHANGED <<aggVars, fetchVars, histVars, holidayVars, calcVars, script, repair_data, lead_times_df>>

---------------------------------------------------------------------------
(* Task 3e: the table per country *)

\* The country names of the model in the order of Python's string comparison
\* (sorted, sort_values, groupby keys).
NameOrder == <<"Austria", "Czechia", "Germany", "Poland", "Slovakia">>
name_rank(n) == CHOOSE k \in DOMAIN NameOrder : NameOrder[k] = n

\* Series.unique(): the values of column Country, each once, in the order of
\* first appearance
unique(table) ==
    LET first(i) == \A j \in 1..(i - 1) : table[j].Country # table[i].Country
        kept == {i \in DOMAIN table : first(i)}
        rank(i) == Cardinality({j \in kept : j <= i})
    IN  [k \in 1..Cardinality(kept) |-> table[CHOOSE i \in kept : rank(i) = k].Country]

\* the names of a list in the order they have
sorted_left_out(names) == names

\* sorted(names): the names of a list in ascending order
sorted(names) ==
    LET S == {names[i] : i \in DOMAIN names}
        pos(n) == Cardinality({m \in S : name_rank(m) <= name_rank(n)})
    IN  [k \in 1..Cardinality(S) |-> CHOOSE n \in S : pos(n) = k]

\* the rows of a status counted whatever their country
count_status_all(table, country_name, status) ==
    Cardinality({i \in DOMAIN table : table[i].Status = status})

\* the rows of a country with a status, those without a lead time left out
count_status_with_lead_time(table, country_name, status) ==
    Cardinality({i \in DOMAIN table :
                    /\ table[i].Country = country_name
                    /\ table[i].Status = status
                    /\ table[i].LeadTime # NaN})

\* (country_df['Status'] == status).sum(): the rows of a country with a status
count_status(table, country_name, status) ==
    Cardinality({i \in DOMAIN table :
                    table[i].Country = country_name /\ table[i].Status = status})

\* n / d cut to a whole number instead of rounded
round_ratio_down(n, d) == n \div d

\* round(n / d): the nearest whole number, the even one of two equally near
round_ratio(n, d) ==
    LET q == n \div d
        r == n % d
    IN  IF 2 * r < d THEN q
        ELSE IF 2 * r > d THEN q + 1
        ELSE IF q % 2 = 0 THEN q ELSE q + 1

\* A hit rate is kept in hundredths of a percent (70.0 % is 7000), as a cell:
\* Num(v), or NaN for 0 / 0.
PercentHundredths == 10000

\* round((hit_count / total_count * 100) if total_count > 0 else 0, 2)
hit_rate(hit_count, miss_count) ==
    LET total_count == hit_count + miss_count
    IN  IF total_count > 0
        THEN Num(round_ratio(hit_count * PercentHundredths, total_count))
        ELSE Num(0)

\* (Hit_count / (Hit_count + Miss_count) * 100).round(2), on float columns:
\* 0 / 0 is NaN
solution_hit_rate(hit_count, miss_count) ==
    LET total_count == hit_count + miss_count
    IN  IF total_count = 0 THEN NaN
        ELSE Num(round_ratio(hit_count * PercentHundredths, total_count))

\* the row of agg_data of a country
agg_row(table, country_name) ==
    LET hit_count == count_status(table, country_name, "Hit")
        miss_count == count_status(table, country_name, "Miss")
    IN  [Country |-> country_name, Hit_count |-> hit_count, Miss_count |-> miss_count,
         Hit_rate |-> hit_rate(hit_count, miss_count)]

\* a table left in the order it has
sort_values_left_out(df) == df

\* DataFrame.sort_values('Country'): the rows in ascending order of Country
\* (no two rows of the table sorted here have the same Country)
sort_values(df) ==
    LET pos(i) == Cardinality({j \in DOMAIN df :
                                  name_rank(df[j].Country) <= name_rank(df[i].Country)})
    IN  [k \in DOMAIN df |-> df[CHOOSE i \in DOMAIN df : pos(i) = k]]

\* pd.DataFrame(agg_data) of aggregate_by_country: a row for every country of
\* sorted(results_df['Country'].unique())
agg_data_sorted(table) ==
    LET countries == sorted(unique(table))
    IN  [k \in DOMAIN countries |-> agg_row(table, countries[k])]

\* Task 3e that keeps only the records with a lead time in results_df
aggregate_by_country_dropping ==
    /\ script = "lenovo" /\ pc = "aggregate"
    /\ aggregation_df' = agg_data_sorted(results_df)
    /\ results_df' = SelectSeq(results_df, LAMBDA r : r.LeadTime # NaN)
    /\ pc' = "save"
    /\ UNCHANGED <<fetchVars, histVars, holidayVars, calcVars, script, repair_data,
                   lead_times_df>>

\* RepairAnalysisEngine.aggregate_by_country
aggregate_by_country ==
    /\ script = "lenovo" /\ pc = "aggregate"
    /\ aggregation_df' = agg_data_sorted(results_df)
    /\ pc' = "save"
    /\ UNCHANGED <<fetchVars, histVars, holidayVars, calcVars, script, repair_data,
                   lead_times_df, results_df>>

\* puthon_task, Task 3e: a row per country in the order of first appearance,
\* then sort_values('Country')
puthon_aggregation(table) ==
    LET countries == unique(table)
        agg_data == [k \in DOMAIN countries |-> agg_row(table, countries[k])]
    IN  sort_values(agg_data)

puthon_task3e ==
    /\ script = "puthon" /\ pc = "aggregate"
    /\ aggregation_df' = puthon_aggregation(results_df)
    /\ pc' = "save"
    /\ UNCHANGED <<fetchVars, histVars, holidayVars, calcVars, script, repair_data,
                   lead_times_df, results_df>>

\* python_task_solution, Task 3e: groupby("Country") gives a row per country
\* in ascending order; the rate is computed on the columns afterwards
summary(merged) ==
    LET groups == sorted(unique(merged))
    IN  [k \in DOMAIN groups |->
            LET hit_count == count_status(merged, groups[k], "Hit")
                miss_count == count_status(merged, groups[k], "Miss")
            IN  [Country |-> groups[k], Hit_count |-> hit_count,
                 Miss_count |-> miss_count,
                 Hit_rate |-> solution_hit_rate(hit_count, miss_count)]]

solution_task3e ==
    /\ script = "solution" /\ pc = "aggregate"
    /\ aggregation_df' = summary(results_df)
    /\ pc' = "save"
    /\ UNCHANGED <<fetchVars, histVars, holidayVars, calcVars, script, repair_data,
                   lead_times_df, results_df>>

---------------------------------------------------------------------------
(* Spec: one run of Task 3 of one of the scripts, from the state in which *)
(* its holiday table is loaded                                            *)

Init ==
    /\ script \in Scripts
    /\ holidays_df \in PipelineHolidayTables
    /\ holiday_set_by_country =
          (IF script = "lenovo" THEN prepare_holiday_lookup(holidays_df) ELSE None)
    /\ holiday_calendar = None
    /\ start_date = 0
    /\ end_date = 0
    /\ country = None
    /\ call = NoCall
    /\ pc = "load"
    /\ repair_data = None
    /\ lead_times_df = None
    /\ results_df = None
    /\ aggregation_df = None
    /\ api_responses = NoRequests
    /\ csv_file = NoFile
    /\ csv_read = FALSE
    /\ raised = NoException
    /\ data = NoFrame
    /\ files = {}
    /\ history = <<>>

Next ==
    \/ load_repair_data
    \/ calculate_all_business_days
    \/ merge_lead_times
    \/ determine_hit_miss
    \/ puthon_task3a
    \/ puthon_task3b
    \/ puthon_task3c
    \/ puthon_task3d
    \/ solution_task3a
    \/ solution_task3b
    \/ solution_task3c
    \/ solution_task3d
    \/ aggregate_by_country
    \/ puthon_task3e
    \/ solution_task3e

Spec == Init /\ [][Next]_vars

---------------------------------------------------------------------------
(* SpecAgg: Task 3e on a table with many records of one country *)

\* Task 3c and 3d of a script on a RawData table with BusinessDays and a
\* LeadTimes table: the merged table with its Status column
classify(s, repairs, leads) ==
    CASE s = "lenovo" ->
           LET m == merge_left(repairs, leads, "Country", 1)
           IN  WithStatus(m, [i \in DOMAIN m |-> lenovo_status(m[i])])
      [] s = "puthon" ->
           LET m == merge_left(repairs, leads, "Country", 1)
           IN  WithStatus(m, [i \in DOMAIN m |-> puthon_status(m[i])])
      [] s = "solution" ->
           LET m == merge_left(repairs, leads, "CountryCode", 1)
           IN  WithStatus(m, [i \in DOMAIN m |-> solution_result(m[i])])

\* Task 3e of a script on a classified table
aggregate(s, table) ==
    CASE s = "lenovo" -> agg_data_sorted(table)
      [] s = "puthon" -> puthon_aggregation(table)
      [] s = "solution" -> summary(table)

\* The lead time of Austria in SpecAgg, in business days.
AustriaLeadTime == 4

\* A RawData table with g records of Germany over the week from 2020-01-01,
\* then h records of Austria over 2020-01-01 alone and m records of Austria
\* over that week; with no holidays the scripts count 1 day and 5 days.
AggRecords(g, h, m) ==
    [i \in 1..(g + h + m) |->
        LET c == IF i <= g THEN "Germany" ELSE "Austria"
            week == i <= g \/ i > g + h
        IN  [Country |-> c, CountryCode |-> FileCountryCode(c),
             Start_Date |-> 0, End_Date |-> IF week THEN 6 ELSE 0,
             BusinessDays |-> IF week THEN 5 ELSE 1]]

\* The state of a script before Task 3e: no holidays, a lead time for Austria
\* only, the records merged and classified.
InitAgg ==
    /\ script \in Scripts
    /\ holidays_df = <<>>
    /\ holiday_set_by_country =
          (IF script = "lenovo" THEN prepare_holiday_lookup(<<>>) ELSE None)
    /\ holiday_calendar = (IF script = "solution" THEN <<>> ELSE None)
    /\ start_date = 0
    /\ end_date = 0
    /\ country = None
    /\ call = NoCall
    /\ pc = "aggregate"
    /\ lead_times_df = <<[Country |-> "Austria", CountryCode |-> "AT",
                          LeadTime |-> AustriaLeadTime]>>
    /\ \E g \in 0..1, h \in 0..MaxHit, m \in 0..MaxMiss :
          repair_data = AggRecords(g, h, m)
    /\ results_df = classify(script, repair_data, lead_times_df)
    /\ aggregation_df = None
    /\ api_responses = NoRequests
    /\ csv_file = NoFile
    /\ csv_read = FALSE
    /\ raised = NoException
    /\ data = NoFrame
    /\ files = {}
    /\ history = <<>>

NextAgg == aggregate_by_country \/ puthon_task3e \/ solution_task3e

SpecAgg == InitAgg /\ [][NextAgg]_vars

---------------------------------------------------------------------------
(* SpecHistory: calls of the business-day functions of lenovo_task and     *)
(* puthon_task, one after the other on the same holiday table             *)

\* What a call is made with: 2020-01-01 alone or the week from it, for a
\* mapped country or one that is not mapped.
HistoryIntervals == {<<0, 0>>, <<0, 6>>}
HistoryCountries == {"Austria", "Poland"}

InitHistory ==
    /\ holidays_df \in PipelineHolidayTables
    /\ holiday_set_by_country = prepare_holiday_lookup(holidays_df)
    /\ holiday_calendar = None
    /\ start_date = 0
    /\ end_date = 0
    /\ country = None
    /\ call = NoCall
    /\ script = None
    /\ pc = "calls"
    /\ repair_data = None
    /\ lead_times_df = None
    /\ results_df = None
    /\ aggregation_df = None
    /\ api_responses = NoRequests
    /\ csv_file = NoFile
    /\ csv_read = FALSE
    /\ raised = NoException
    /\ data = NoFrame
    /\ files = {}
    /\ history = <<>>

\* a call that answers from what was returned before for the same country,
\* whatever the interval
HistoryCallLenovoRemembering ==
    /\ pc = "calls"
    /\ Len(history) < MaxCalls
    /\ \E iv \in HistoryIntervals, c \in HistoryCountries :
          LET before == {i \in DOMAIN history :
                            history[i].fn = "lenovo" /\ history[i].country = c}
              computed == lenovo_calculate_business_days(
                              holiday_set_by_country, iv[1], iv[2], c)
              result == IF before = {} THEN computed
                        ELSE history[CHOOSE i \in before : \A j \in before : i <= j].result
          IN  history' = Append(history,
                  [fn |-> "lenovo", start |-> iv[1], end |-> iv[2], country |-> c,
                   result |-> result])
    /\ UNCHANGED <<aggVars, fetchVars, holidayVars, calcVars, pipeVars>>

\* RepairAnalysisEngine._calculate_business_days called once more: it reads
\* the lookup and its arguments, and assigns to nothing but its locals
HistoryCallLenovo ==
    /\ pc = "calls"
    /\ Len(history) < MaxCalls
    /\ \E iv \in HistoryIntervals, c \in HistoryCountries :
          history' = Append(history,
              [fn |-> "lenovo", start |-> iv[1], end |-> iv[2], country |-> c,
               result |-> lenovo_calculate_business_days(
                              holiday_set_by_country, iv[1], iv[2], c)])
    /\ UNCHANGED <<aggVars, fetchVars, holidayVars, calcVars, pipeVars>>

\* puthon_task.calculate_business_days called once more: it reads holidays_df
\* and its arguments, and assigns to nothing but its locals
HistoryCallPuthon ==
    /\ pc = "calls"
    /\ Len(history) < MaxCalls
    /\ \E iv \in HistoryIntervals, c \in HistoryCountries :
          history' = Append(history,
              [fn |-> "puthon", start |-> iv[1], end |-> iv[2], country |-> c,
               result |-> calculate_business_days(holidays_df, iv[1], iv[2], c)])
    /\ UNCHANGED <<aggVars, fetchVars, holidayVars, calcVars, pipeVars>>

NextHistory == HistoryCallLenovo \/ HistoryCallPuthon

SpecHistory == InitHistory /\ [][NextHistory]_vars

---------------------------------------------------------------------------
(* SpecSplit: a business-day function called on an interval and on the two *)
(* parts of it, on the same holiday table                                  *)

\* Holiday tables of SpecSplit: none; Wednesday 2020-01-01 for AT; that day
\* and Monday 2020-01-06 for AT; Saturday 2020-01-04 for AT and Monday
\* 2020-01-06 for SK.
SplitHolidayTables ==
    { <<>>,
      <<[countryCode |-> "AT", date |-> 0]>>,
      <<[countryCode |-> "AT", date |-> 0], [countryCode |-> "AT", date |-> 5]>>,
      <<[countryCode |-> "AT", date |-> 3], [countryCode |-> "SK", date |-> 5]>> }
SplitCountries == {"Austria", "Slovakia", "Germany"}

InitSplit ==
    /\ holidays_df \in SplitHolidayTables
    /\ holiday_set_by_country = prepare_holiday_lookup(holidays_df)
    /\ holiday_calendar = drop_duplicates(holidays_df)
    /\ start_date \in 0..MaxSplitDay
    /\ end_date \in 0..MaxSplitDay
    /\ start_date < end_date
    /\ country \in SplitCountries
    /\ call = NoCall
    /\ script = None
    /\ pc = "split"
    /\ repair_data = None
    /\ lead_times_df = None
    /\ results_df = None
    /\ aggregation_df = None
    /\ api_responses = NoRequests
    /\ csv_file = NoFile
    /\ csv_read = FALSE
    /\ raised = NoException
    /\ data = NoFrame
    /\ files = {}
    /\ history = <<>>

\* the three calls as they are recorded: the interval, then its part up to b,
\* then its part from the day after b
SplitCalls(fn, b, whole, first, second) ==
    << [fn |-> fn, start |-> start_date, end |-> end_date, country |-> country,
        result |-> whole],
       [fn |-> fn, start |-> start_date, end |-> b, country |-> country,
        result |-> first],
       [fn |-> fn, start |-> b + 1, end |-> end_date, country |-> country,
        result |-> second] >>

\* RepairAnalysisEngine._calculate_business_days, three calls
SplitLenovo ==
    /\ pc = "split" /\ Len(history) = 0
    /\ \E b \in start_date..(end_date - 1) :
          history' = SplitCalls("lenovo", b,
              lenovo_calculate_business_days(holiday_set_by_country, start_date, end_date,
                                             country),
              lenovo_calculate_business_days(holiday_set_by_country, start_date, b, country),
              lenovo_calculate_business_days(holiday_set_by_country, b + 1, end_date,
                                             country))
    /\ UNCHANGED <<aggVars, fetchVars, holidayVars, calcVars, pipeVars>>

\* puthon_task.calculate_business_days, three calls
SplitPuthon ==
    /\ pc = "split" /\ Len(history) = 0
    /\ \E b \in start_date..(end_date - 1) :
          history' = SplitCalls("puthon", b,
              calculate_business_days(holidays_df, start_date, end_date, country),
              calculate_business_days(holidays_df, start_date, b, country),
              calculate_business_days(holidays_df, b + 1, end_date, country))
    /\ UNCHANGED <<aggVars, fetchVars, holidayVars, calcVars, pipeVars>>

\* python_task_solution.business_days, three calls on the same numpy
SplitSolution ==
    /\ pc = "split" /\ Len(history) = 0
    /\ \E b \in start_date..(end_date - 1), shifted \in BOOLEAN :
          LET code == FileCountryCode(country)
          IN  history' = SplitCalls("solution", b,
                  business_days(holiday_calendar, shifted, start_date, end_date, code),
                  business_days(holiday_calendar, shifted, start_date, b, code),
                  business_days(holiday_calendar, shifted, b + 1, end_date, code))
    /\ UNCHANGED <<aggVars, fetchVars, holidayVars, calcVars, pipeVars>>

NextSplit == SplitLenovo \/ SplitPuthon \/ SplitSolution

SpecSplit == InitSplit /\ [][NextSplit]_vars

---------------------------------------------------------------------------
(* Task 1a: where the holiday table comes from *)
---------------------------------------------------------------------------
(* Task 1a: where the holiday table comes from *)

\* The requests of `for country in COUNTRIES: for year in YEARS`, in the order
\* they are sent: one year of two of the countries.
Requests == <<"AT", "SK">>

\* What a holiday record of the API or of a CSV file says: its date
\* (2020-01-01 or 2020-01-06) and its types.
SourceDates == {0, 5}
TypeSets == {{"Public"}, {"Observance"}}

\* An answer of the API to the request for a country: HTTP 200 with a list of
\* holidays of that country, another HTTP status, or no answer at all
\* (timeout, network error).
ApiHolidays(code) == [countryCode : {code}, date : SourceDates, types : TypeSets]
Responses(code) ==
    {[outcome |-> o, holidays |-> <<>>] : o \in {"http_error", "exception"}}
    \cup {[outcome |-> "ok", holidays |-> h] :
              h \in UNION {[1..n -> ApiHolidays(code)] : n \in 0..MaxApi}}
ApiResponses ==
    {f \in [{Requests[i] : i \in DOMAIN Requests} ->
                UNION {Responses(code) : code \in {Requests[i] : i \in DOMAIN Requests}}] :
        \A code \in DOMAIN f : f[code] \in Responses(code)}

\* The holiday CSV file of lenovo_task (HOLIDAY_CSV_PATH): absent or
\* unreadable, or a table of holiday records.
CsvRows == [countryCode : FeedCodes, date : SourceDates, types : TypeSets]
CsvFiles == {NoFile} \cup {File(t) : t \in UNION {[1..n -> CsvRows] : n \in 0..MaxCsv}}

\* 'Public' in holiday.get('types', [])
is_public(holiday) == "Public" \in holiday.types

\* the request loop that goes on after a request that is not answered with
\* HTTP 200, and keeps what the other requests gave
RECURSIVE api_loop_going_on(_, _, _)
api_loop_going_on(responses, i, collected) ==
    IF i > Len(Requests) THEN [failed |-> FALSE, collected |-> collected]
    ELSE LET response == responses[Requests[i]]
         IN  IF response.outcome = "ok"
             THEN api_loop_going_on(responses, i + 1,
                                    collected \o SelectSeq(response.holidays, is_public))
             ELSE api_loop_going_on(responses, i + 1, collected)

\* The request loop of lenovo_task and puthon_task from request i on: the
\* public holidays of every answer are collected; the first request that is
\* not answered with HTTP 200 ends the function with None.
RECURSIVE api_loop(_, _, _)
api_loop(responses, i, collected) ==
    IF i > Len(Requests) THEN [failed |-> FALSE, collected |-> collected]
    ELSE LET response == responses[Requests[i]]
         IN  IF response.outcome = "ok"
             THEN api_loop(responses, i + 1,
                           collected \o SelectSeq(response.holidays, is_public))
             ELSE [failed |-> TRUE, collected |-> <<>>]

\* HolidayDataFetcher.fetch_from_api: None as well when nothing was collected
fetch_from_api(responses) ==
    LET r == api_loop(responses, 1, <<>>)
    IN  IF r.failed \/ r.collected = <<>> THEN NoFrame ELSE Frame(r.collected)

\* HolidayDataFetcher.fetch_from_csv: every row of the file as it is, None
\* when the file is absent or cannot be read
fetch_from_csv(file) == IF file = NoFile THEN NoFrame ELSE Frame(FrameOf(file))

\* HolidayDataFetcher.fetch_holidays: the API first, then the CSV file, else
\* RuntimeError
\* fetch_holidays with the CSV file tried first and the API second
fetch_holidays_call_csv_first(responses, file, old_data) ==
    LET api_data == fetch_from_api(responses)
        csv_data_read == fetch_from_csv(file)
    IN  IF csv_data_read # NoFrame
        THEN [raised |-> NoException, data |-> csv_data_read, csv_read |-> TRUE]
        ELSE IF api_data # NoFrame
        THEN [raised |-> NoException, data |-> api_data, csv_read |-> TRUE]
        ELSE [raised |-> "RuntimeError", data |-> old_data, csv_read |-> TRUE]

\* what a call of fetch_holidays does on a fetcher whose data is old_data:
\* the exception raised if any, self.data afterwards, whether the CSV file
\* was read
fetch_holidays_call(responses, file, old_data) ==
    LET api_data == fetch_from_api(responses)
        csv_data_read == fetch_from_csv(file)
    IN  IF api_data # NoFrame
        THEN [raised |-> NoException, data |-> api_data, csv_read |-> FALSE]
        ELSE IF csv_data_read # NoFrame
        THEN [raised |-> NoException, data |-> csv_data_read, csv_read |-> TRUE]
        ELSE [raised |-> "RuntimeError", data |-> old_data, csv_read |-> TRUE]

fetch_holidays ==
    /\ script = "lenovo"
    /\ pc = "fetch"
    /\ LET r == fetch_holidays_call(api_responses, csv_file, data)
       IN  /\ raised' = r.raised
           /\ data' = r.data
           /\ csv_read' = r.csv_read
           /\ IF r.raised = NoException
              THEN holidays_df' = FrameOf(r.data) /\ pc' = "fetched"
              ELSE holidays_df' = holidays_df /\ pc' = "failed"
    /\ UNCHANGED <<aggVars, api_responses, csv_file, files, histVars,
                   holiday_set_by_country, holiday_calendar,
                   calcVars, script, repair_data, lead_times_df, results_df>>

\* puthon_task.fetch_holidays_from_api: the collected table, which may be
\* empty, or None
fetch_holidays_from_api(responses) ==
    LET r == api_loop(responses, 1, <<>>)
    IN  IF r.failed THEN NoFrame ELSE Frame(r.collected)

\* Day numbers of 2025-08-29, 2025-09-01 and 2025-09-15, and of 2025-12-31
Day_2025_08_29 == 2067
Day_2025_09_01 == 2070
Day_2025_09_15 == 2084
Day_2025_12_31 == 2191

\* puthon_task: the CSV text written in the script, of which three
\* consecutive rows of SK are kept here
csv_data ==
    << [countryCode |-> "SK", date |-> Day_2025_08_29, types |-> {"Public"}],
       [countryCode |-> "SK", date |-> Day_2025_09_01, types |-> {"Observance"}],
       [countryCode |-> "SK", date |-> Day_2025_09_15, types |-> {"Public"}] >>

\* holidays_df[(Year >= 2020) & (Year <= 2025)]
year_filter(df) == SelectSeq(df, LAMBDA r : 0 <= r.date /\ r.date <= Day_2025_12_31)

\* puthon_task, Task 1a to Task 2a: the API table, or the CSV text of the
\* script when the API gave None or an empty table; then the rows of 2020-2025
puthon_task1 ==
    /\ script = "puthon"
    /\ pc = "fetch"
    /\ LET api_data == fetch_holidays_from_api(api_responses)
           table == IF api_data = NoFrame \/ api_data = Frame(<<>>)
                    THEN csv_data
                    ELSE FrameOf(api_data)
       IN  holidays_df' = year_filter(table)
    /\ pc' = "fetched"
    /\ UNCHANGED <<aggVars, fetchVars, histVars, holiday_set_by_country, holiday_calendar,
                   calcVars, script, repair_data, lead_times_df, results_df>>

\* python_task_solution, the loop of Task 1a from request i on: every holiday
\* of every answer becomes a row (CountryCode, Date) whatever its types; a
\* request not answered with HTTP 200 raises
RECURSIVE solution_loop(_, _, _)
solution_loop(responses, i, all_holidays) ==
    IF i > Len(Requests) THEN [raised |-> FALSE, all_holidays |-> all_holidays]
    ELSE LET response == responses[Requests[i]]
             h == response.holidays
         IN  IF response.outcome = "ok"
             THEN solution_loop(responses, i + 1,
                      all_holidays \o [k \in DOMAIN h |->
                          [countryCode |-> Requests[i], date |-> h[k].date]])
             ELSE [raised |-> TRUE, all_holidays |-> <<>>]

solution_task1a ==
    /\ script = "solution"
    /\ pc = "fetch"
    /\ LET r == solution_loop(api_responses, 1, <<>>)
       IN  IF r.raised
           THEN holidays_df' = holidays_df /\ pc' = "failed"
           ELSE holidays_df' = r.all_holidays /\ pc' = "fetched"
    /\ UNCHANGED <<aggVars, fetchVars, histVars, holiday_set_by_country, holiday_calendar,
                   calcVars, script, repair_data, lead_times_df, results_df>>

InitFetch ==
    /\ script \in Scripts
    /\ api_responses \in ApiResponses
    /\ csv_file \in CsvFiles
    /\ csv_read = FALSE
    /\ raised = NoException
    /\ data = NoFrame
    /\ files = {}
    /\ pc = "fetch"
    /\ holidays_df = None
    /\ holiday_set_by_country = None
    /\ holiday_calendar = None
    /\ start_date = 0
    /\ end_date = 0
    /\ country = None
    /\ call = NoCall
    /\ repair_data = None
    /\ lead_times_df = None
    /\ results_df = None
    /\ aggregation_df = None
    /\ history = <<>>

NextFetch == fetch_holidays \/ puthon_task1 \/ solution_task1a

SpecFetch == InitFetch /\ [][NextFetch]_vars

---------------------------------------------------------------------------
(* SpecFetcher: calls of fetch_holidays and save_holidays on one           *)
(* HolidayDataFetcher, in any order, while the API and the CSV file come   *)
(* and go                                                                  *)

OUTPUT_HOLIDAYS_FILE == "results/holidays_data.csv"

\* What a call of fetch_holidays may find: the API answering, with a Public
\* holiday of AT, and no CSV file; the API not answering and a CSV file with
\* a holiday of SK; the API answering with HTTP errors and no CSV file.
FetcherEnvironments ==
    { [responses |-> [c \in {"AT", "SK"} |->
                         IF c = "AT"
                         THEN [outcome |-> "ok",
                               holidays |-> <<[countryCode |-> "AT", date |-> 0,
                                               types |-> {"Public"}]>>]
                         ELSE [outcome |-> "ok", holidays |-> <<>>]],
       file |-> NoFile],
      [responses |-> [c \in {"AT", "SK"} |-> [outcome |-> "exception", holidays |-> <<>>]],
       file |-> File(<<[countryCode |-> "SK", date |-> 5, types |-> {"Public"}]>>)],
      [responses |-> [c \in {"AT", "SK"} |-> [outcome |-> "http_error", holidays |-> <<>>]],
       file |-> NoFile] }

\* HolidayDataFetcher.__init__
InitFetcher ==
    /\ script = "lenovo"
    /\ pc = "fetcher"
    /\ data = NoFrame
    /\ files = {}
    /\ raised = NoException
    /\ csv_read = FALSE
    /\ api_responses = NoRequests
    /\ csv_file = NoFile
    /\ holidays_df = None
    /\ holiday_set_by_country = None
    /\ holiday_calendar = None
    /\ start_date = 0
    /\ end_date = 0
    /\ country = None
    /\ call = NoCall
    /\ repair_data = None
    /\ lead_times_df = None
    /\ results_df = None
    /\ aggregation_df = None
    /\ history = <<>>

\* a call as it is recorded: the method, the exception raised, and
\* self.data and the files written after it
FetcherCall(fn, exception, data_after, files_after) ==
    [fn |-> fn, raised |-> exception, data |-> data_after, files |-> files_after]

\* fetch_holidays called on the fetcher
fetcher_fetch_holidays ==
    /\ pc = "fetcher" /\ Len(history) < MaxFetcherCalls
    /\ \E env \in FetcherEnvironments :
          LET r == fetch_holidays_call(env.responses, env.file, data)
          IN  /\ api_responses' = env.responses
              /\ csv_file' = env.file
              /\ raised' = r.raised
              /\ data' = r.data
              /\ csv_read' = r.csv_read
              /\ history' = Append(history,
                                   FetcherCall("fetch_holidays", r.raised, r.data, files))
    /\ UNCHANGED <<aggVars, files, holidayVars, calcVars, pipeVars>>

\* save_holidays that writes the file whatever self.data is
save_holidays_unchecked ==
    /\ pc = "fetcher" /\ Len(history) < MaxFetcherCalls
    /\ raised' = NoException
    /\ files' = files \cup {OUTPUT_HOLIDAYS_FILE}
    /\ history' = Append(history,
                         FetcherCall("save_holidays", NoException, data,
                                     files \cup {OUTPUT_HOLIDAYS_FILE}))
    /\ UNCHANGED <<aggVars, api_responses, csv_file, csv_read, data, holidayVars,
                   calcVars, pipeVars>>

\* HolidayDataFetcher.save_holidays: ValueError while self.data is None;
\* else to_csv writes the file, or raises OSError when it cannot (the
\* directory results/ is made by no statement of the script)
save_holidays ==
    /\ pc = "fetcher" /\ Len(history) < MaxFetcherCalls
    /\ IF data = NoFrame
       THEN /\ raised' = "ValueError"
            /\ files' = files
            /\ history' = Append(history,
                                 FetcherCall("save_holidays", "ValueError", data, files))
       ELSE \/ /\ raised' = NoException
               /\ files' = files \cup {OUTPUT_HOLIDAYS_FILE}
               /\ history' = Append(history,
                                    FetcherCall("save_holidays", NoException, data,
                                                files \cup {OUTPUT_HOLIDAYS_FILE}))
            \/ /\ raised' = "OSError"
               /\ files' = files
               /\ history' = Append(history,
                                    FetcherCall("save_holidays", "OSError", data, files))
    /\ UNCHANGED <<aggVars, api_responses, csv_file, csv_read, data, holidayVars,
                   calcVars, pipeVars>>

NextFetcher == fetcher_fetch_holidays \/ save_holidays

SpecFetcher == InitFetcher /\ [][NextFetcher]_vars

---------------------------------------------------------------------------
(* SpecMain: lenovo_task.main from its first statement to its last         *)

OUTPUT_COUNTS_FILE == "results/holiday_counts.csv"
OUTPUT_RESULTS_FILE == "results/repair_analysis_results.csv"
OUTPUT_AGGREGATION_FILE == "results/country_aggregation.csv"

\* what main's except blocks print
FetchFailure == "Failed to fetch holiday data"
CountsFailure == "Failed to calculate holiday counts"
AnalysisFailure == "Failed to complete repair analysis"

\* main is entered: holidays_df is not assigned yet, no file is written, and
\* the API and the CSV file are as one of FetcherEnvironments has them
InitMain ==
    /\ script = "lenovo"
    /\ pc = "main_task1"
    /\ \E env \in FetcherEnvironments :
          /\ api_responses = env.responses
          /\ csv_file = env.file
    /\ data = NoFrame
    /\ files = {}
    /\ raised = NoException
    /\ csv_read = FALSE
    /\ holidays_df = None
    /\ holiday_set_by_country = None
    /\ holiday_calendar = None
    /\ start_date = 0
    /\ end_date = 0
    /\ country = None
    /\ call = NoCall
    /\ repair_data = None
    /\ lead_times_df = None
    /\ results_df = None
    /\ aggregation_df = None
    /\ history = <<>>

\* Task 1: holidays_df = fetch_holidays(), then save_holidays(), in one try;
\* whatever either raises is caught and printed, and holidays_df is assigned
\* only when fetch_holidays returned
main_task1 ==
    /\ script = "lenovo" /\ pc = "main_task1"
    /\ LET r == fetch_holidays_call(api_responses, csv_file, data)
       IN  /\ data' = r.data
           /\ csv_read' = r.csv_read
           /\ IF r.raised # NoException
              THEN /\ raised' = r.raised
                   /\ holidays_df' = holidays_df
                   /\ files' = files
                   /\ history' = Append(history, FetchFailure)
              ELSE /\ holidays_df' = FrameOf(r.data)
                   /\ \/ /\ raised' = NoException
                         /\ files' = files \cup {OUTPUT_HOLIDAYS_FILE}
                         /\ history' = history
                      \/ /\ raised' = "OSError"
                         /\ files' = files
                         /\ history' = Append(history, FetchFailure)
    /\ pc' = "main_total"
    /\ UNCHANGED <<aggVars, api_responses, csv_file, holiday_set_by_country,
                   holiday_calendar, calcVars, script, repair_data, lead_times_df,
                   results_df>>

\* print(f"Total holidays loaded: {len(holidays_df)}"), after the try: a
\* holidays_df that was never assigned raises UnboundLocalError, which
\* nothing catches
main_total ==
    /\ script = "lenovo" /\ pc = "main_total"
    /\ IF holidays_df = None
       THEN raised' = "UnboundLocalError" /\ pc' = "crashed"
       ELSE raised' = raised /\ pc' = "main_task2"
    /\ UNCHANGED <<aggVars, api_responses, csv_file, csv_read, data, files, histVars,
                   holidayVars, calcVars, script, repair_data, lead_times_df,
                   results_df>>

\* Task 2: HolidayCountsAggregator(holidays_df), then calculate_counts and
\* save_counts in one try; the counts file is written or the failure printed
main_task2 ==
    /\ script = "lenovo" /\ pc = "main_task2"
    /\ \/ /\ raised' = NoException
          /\ files' = files \cup {OUTPUT_COUNTS_FILE}
          /\ history' = history
       \/ /\ raised' = "OSError"
          /\ files' = files
          /\ history' = Append(history, CountsFailure)
    /\ pc' = "main_task3"
    /\ UNCHANGED <<aggVars, api_responses, csv_file, csv_read, data, holidayVars,
                   calcVars, script, repair_data, lead_times_df, results_df>>

\* repair_engine = RepairAnalysisEngine(holidays_df)
main_task3 ==
    /\ script = "lenovo" /\ pc = "main_task3"
    /\ holiday_set_by_country' = prepare_holiday_lookup(holidays_df)
    /\ repair_data' = None
    /\ results_df' = None
    /\ aggregation_df' = None
    /\ pc' = "load"
    /\ UNCHANGED <<fetchVars, histVars, holidays_df, holiday_calendar, calcVars,
                   script, lead_times_df>>

\* save_results run also after a step has raised
save_results_after_failure ==
    /\ script = "lenovo" /\ pc \in {"save", "failed"}
    /\ files' = files \cup {OUTPUT_RESULTS_FILE, OUTPUT_AGGREGATION_FILE}
    /\ pc' = "done"
    /\ UNCHANGED <<aggVars, api_responses, csv_file, csv_read, raised, data, histVars,
                   holidayVars, calcVars, script, repair_data, lead_times_df,
                   results_df>>

\* RepairAnalysisEngine.save_results: results_df.to_csv, then
\* aggregation_df.to_csv; either may raise, the second after the first file
\* is written
save_results ==
    /\ script = "lenovo" /\ pc = "save"
    /\ \/ /\ files' = files \cup {OUTPUT_RESULTS_FILE, OUTPUT_AGGREGATION_FILE}
          /\ pc' = "done"
       \/ /\ files' = files
          /\ pc' = "failed"
       \/ /\ files' = files \cup {OUTPUT_RESULTS_FILE}
          /\ pc' = "failed"
    /\ UNCHANGED <<aggVars, api_responses, csv_file, csv_read, raised, data, histVars,
                   holidayVars, calcVars, script, repair_data, lead_times_df,
                   results_df>>

\* the except block of Task 3 when a step raised, and the list of files
\* that ends main
main_end ==
    /\ script = "lenovo" /\ pc \in {"done", "failed"}
    /\ history' = IF pc = "failed" THEN Append(history, AnalysisFailure) ELSE history
    /\ pc' = "main_end"
    /\ UNCHANGED <<aggVars, fetchVars, holidayVars, calcVars, script, repair_data,
                   lead_times_df, results_df>>

NextMain ==
    \/ main_task1
    \/ main_total
    \/ main_task2
    \/ main_task3
    \/ load_repair_data
    \/ calculate_all_business_days
    \/ merge_lead_times
    \/ determine_hit_miss
    \/ aggregate_by_country
    \/ save_results
    \/ main_end

SpecMain == InitMain /\ [][NextMain]_vars

---------------------------------------------------------------------------
(* What the claims speak of *)

\* 2020-01-04 and 2020-01-05 (days 3 and 4) are a Saturday and a Sunday.
IsWeekend(d) == d % 7 \in {3, 4}

\* The holiday set of a country: the dates the holiday table lists under the
\* country's code.
HolidaySetOf(country_name) ==
    {holidays_df[i].date :
        i \in {j \in DOMAIN holidays_df :
                 holidays_df[j].countryCode = FileCountryCode(country_name)}}

\* The dates of [start, end] that are Monday..Friday and no holiday of the country.
BusinessDates(start, end, country_name) ==
    {d \in start..end : ~IsWeekend(d) /\ d \notin HolidaySetOf(country_name)}

Called == call.fn # "none"

\* What the function that was called returns for another end date, same
\* start date, country, holiday table and build.
SameCallWithEnd(end) ==
    CASE call.fn = "lenovo" ->
           lenovo_calculate_business_days(holiday_set_by_country, start_date, end, country)
      [] call.fn = "puthon" ->
           calculate_business_days(holidays_df, start_date, end, country)
      [] call.fn = "solution" ->
           business_days(holiday_calendar, call.shifted, start_date, end,
                         FileCountryCode(country))

\* C1: for start <= end and a mapped country, each of the three functions
\* returns the number of dates of [start, end], both ends included, that are
\* Monday..Friday and not in the country's holiday set.
C1_CountsWeekdaysOutsideHolidays ==
    (Called /\ start_date <= end_date /\ country \in DOMAIN COUNTRY_MAPPING)
        => call.result = Cardinality(BusinessDates(start_date, end_date, country))

\* C1 happens: numpy's count over 2020-01-01..2020-01-07 for Austria with a
\* Wednesday holiday and a Saturday holiday listed is 4.
C1_Witness ==
    /\ call.fn = "solution"
    /\ country = "Austria" /\ start_date = 0 /\ end_date = 6
    /\ HolidaySetOf("Austria") = {0, 3}
    /\ call.result = 4

\* C5: when end precedes start, the function returns 0 in every script.
C5_ReversedIntervalReturnsZero ==
    (Called /\ end_date < start_date) => call.result = 0

\* C7: for a country that is not mapped, lenovo_task and puthon_task return
\* the number of Monday..Friday dates of [start, end].
C7_UnmappedCountryCountsWeekdays ==
    (call.fn \in {"lenovo", "puthon"} /\ country \notin DOMAIN COUNTRY_MAPPING)
        => call.result = Cardinality({d \in start_date..end_date : ~IsWeekend(d)})

\* C8: over a single day [x, x] the count is 1 when x is Monday..Friday and no
\* holiday of the country, and 0 when x is a Saturday, a Sunday or a holiday.
C8_SingleDayInterval ==
    (Called /\ start_date = end_date)
        => call.result = (IF ~IsWeekend(start_date) /\ start_date \notin HolidaySetOf(country)
                          THEN 1 ELSE 0)

\* C9: with start, country and holiday table fixed, the count never decreases
\* as end increases, ends before start included.
C9_MonotoneInEnd ==
    Called =>
        \A e \in EndDates :
            /\ e <= end_date => SameCallWithEnd(e) <= call.result
            /\ end_date <= e => call.result <= SameCallWithEnd(e)

\* C9 happens: a call whose end is before its start, with a count below the
\* count of a later end.
C9_Witness ==
    /\ call.fn = "solution"
    /\ end_date < start_date - 1
    /\ call.result < 0
    /\ SameCallWithEnd(start_date) = 1

\* C10: lenovo_task's count over the seven days [start, start+6], none of them
\* a holiday of the country, is 5 whatever the day of week of start.
C10_SevenDaysGiveFive ==
    (/\ call.fn = "lenovo"
     /\ end_date = start_date + 6
     /\ \A d \in start_date..end_date : d \notin HolidaySetOf(country))
        => call.result = 5

\* C10 happens: a week starting on Saturday 2020-01-04, for Austria, whose
\* only holiday is 2020-01-01.
C10_Witness ==
    /\ call.fn = "lenovo"
    /\ start_date = 3 /\ end_date = 9 /\ country = "Austria"
    /\ HolidaySetOf("Austria") = {0}
    /\ call.result = 5

---------------------------------------------------------------------------
(* Claims on the classified records *)

\* the records are classified: the Hit/Miss step of the script has run
Classified == pc = "aggregate"

\* the LeadTimes rows of the country of a classified record
LeadEntriesOf(row) ==
    {k \in DOMAIN lead_times_df :
        IF script = "solution"
        THEN lead_times_df[k].CountryCode = row.CountryCode
        ELSE lead_times_df[k].Country = row.Country}

\* C2: a classified record is Hit exactly when its business-day count is at
\* most the lead time of its country, and Miss otherwise; a count equal to
\* the lead time is a Hit.
C2_HitIffWithinLeadTime ==
    Classified =>
        \A i \in DOMAIN results_df :
            LET row == results_df[i]
            IN  /\ row.Status \in {"Hit", "Miss"}
                /\ row.LeadTime \subseteq
                      {lead_times_df[k].LeadTime : k \in LeadEntriesOf(row)}
                /\ LeadEntriesOf(row) # {} => row.LeadTime # NaN
                /\ row.Status = "Hit" <=>
                      \E lead_time \in row.LeadTime : row.BusinessDays <= lead_time

\* C2 happens: a record with four business days and a lead time of four is a
\* Hit, beside one of the same country that is a Miss.
C2_Witness ==
    /\ Classified
    /\ \E i, j \in DOMAIN results_df :
          /\ results_df[i].BusinessDays = 4
          /\ results_df[i].LeadTime = Num(4)
          /\ results_df[i].Status = "Hit"
          /\ results_df[j].Country = results_df[i].Country
          /\ results_df[j].Status = "Miss"

\* C3: a record whose country name the mapping does not hold is left out of
\* the classified results of lenovo_task and puthon_task.
C3_UnmappedRecordExcluded ==
    (Classified /\ script \in {"lenovo", "puthon"})
        => \A i \in DOMAIN results_df :
              results_df[i].Country \in DOMAIN COUNTRY_MAPPING

\* C4: a record whose country has no lead-time entry is never given the
\* status Hit or Miss.
C4_NoStatusWithoutLeadTime ==
    Classified =>
        \A i \in DOMAIN results_df :
            LeadEntriesOf(results_df[i]) = {}
                => results_df[i].Status \notin {"Hit", "Miss"}

\* C6: the BusinessDays stored on every record is a non-negative integer.
C6_BusinessDaysNonNegative ==
    pc \in {"merge", "hit_miss", "aggregate"} =>
        \A i \in DOMAIN repair_data : repair_data[i].BusinessDays >= 0

---------------------------------------------------------------------------
(* Claims on the holiday table *)

\* C11: with 2020-01-01 the only holiday of AT, the count for Austria is 0
\* over [2020-01-01, 2020-01-01] and 4 over [2020-01-01, 2020-01-07].
C11_AustriaNewYearScenario ==
    (Called /\ country = "Austria" /\ HolidaySetOf("Austria") = {0} /\ start_date = 0)
        => /\ end_date = 0 => call.result = 0
           /\ end_date = 6 => call.result = 4

\* C11 happens: lenovo_task is called for Austria over 2020-01-01..2020-01-07
\* with that holiday table.
C11_Witness ==
    /\ call.fn = "lenovo"
    /\ country = "Austria" /\ HolidaySetOf("Austria") = {0}
    /\ start_date = 0 /\ end_date = 6
    /\ call.result = 4

\* the function of the call made, with the interval and country of the call,
\* on the holiday table df
CalcOn(df) ==
    CASE call.fn = "lenovo" ->
           lenovo_calculate_business_days(prepare_holiday_lookup(df),
                                          start_date, end_date, country)
      [] call.fn = "puthon" ->
           calculate_business_days(df, start_date, end_date, country)
      [] call.fn = "solution" ->
           business_days(drop_duplicates(df), call.shifted, start_date, end_date,
                         FileCountryCode(country))

\* C13: the holidays are kept per country: a holiday row of another country
\* added to the table, or the rows of another country taken out of it, leave
\* the count of the country of the call as it is.
C13_OtherCountryHolidaysIgnored ==
    Called =>
        \A code \in FeedCodes \ {FileCountryCode(country)} :
            /\ \A d \in FeedDates :
                  CalcOn(Append(holidays_df, [countryCode |-> code, date |-> d]))
                      = call.result
            /\ CalcOn(SelectSeq(holidays_df, LAMBDA x : x.countryCode # code))
                  = call.result

\* C13 happens: Austria is counted over a week while the table holds a
\* weekday holiday of Slovakia inside that week, and none of Austria.
C13_Witness ==
    /\ call.fn = "puthon"
    /\ country = "Austria" /\ start_date = 0 /\ end_date = 6
    /\ \E i \in DOMAIN holidays_df :
          holidays_df[i].countryCode = "SK" /\ holidays_df[i].date = 5
    /\ HolidaySetOf("Austria") = {}
    /\ call.result = 5

\* C14: only membership counts: the table with its repeated rows dropped, or
\* with one of its rows written once more, gives the same count.
C14_RepeatedRowsChangeNothing ==
    Called =>
        /\ CalcOn(drop_duplicates(holidays_df)) = call.result
        /\ \A i \in DOMAIN holidays_df :
              CalcOn(Append(holidays_df, holidays_df[i])) = call.result

\* C14 happens: the table holds the same weekday holiday of Austria twice and
\* the week of Austria is counted with that day taken off once.
C14_Witness ==
    /\ call.fn = "puthon"
    /\ country = "Austria" /\ start_date = 0 /\ end_date = 6
    /\ Len(holidays_df) = 2 /\ holidays_df[1] = holidays_df[2]
    /\ holidays_df[1] = [countryCode |-> "AT", date |-> 5]
    /\ call.result = 4

\* the dates flagged Public for a country in any source of holiday records
PublicDates(code) ==
    LET api == UNION {{response.holidays[k] : k \in DOMAIN response.holidays} :
                         response \in {api_responses[c] : c \in DOMAIN api_responses}}
        file == UNION {{t[k] : k \in DOMAIN t} : t \in csv_file}
        text == {csv_data[k] : k \in DOMAIN csv_data}
    IN  {r.date : r \in {x \in api \cup file \cup text :
                            x.countryCode = code /\ is_public(x)}}

\* the holiday dates of a country in the table the fetch handed over
HolidaysInUse(code) ==
    {holidays_df[i].date : i \in {j \in DOMAIN holidays_df : holidays_df[j].countryCode = code}}

\* C12: after the fetch, whatever the source, every date of the holiday table
\* of a country is the date of a record of that country flagged Public.
C12_OnlyPublicHolidaysInUse ==
    pc = "fetched" => \A code \in COUNTRIES : HolidaysInUse(code) \subseteq PublicDates(code)

\* C12 fails: the API does not answer, puthon_task falls back to the CSV text
\* of the script, and Monday 2025-09-01, an Observance of SK that no record
\* flags Public, is taken off the week 2025-09-01..2025-09-05 of Slovakia.
C12_ObservanceRemovesWeekday ==
    /\ pc = "fetched"
    /\ script = "puthon"
    /\ fetch_holidays_from_api(api_responses) = NoFrame
    /\ Day_2025_09_01 \in HolidaysInUse("SK")
    /\ Day_2025_09_01 \notin PublicDates("SK")
    /\ calculate_business_days(holidays_df, Day_2025_09_01, Day_2025_09_01 + 4, "Slovakia") = 4

---------------------------------------------------------------------------
(* Claims on the table per country *)

Aggregated == pc = "save"
CountriesOf(table) == {table[i].Country : i \in DOMAIN table}

\* C15: the table per country has exactly one row for every country of the
\* classified records, no row for any other country, and its rows are in
\* ascending order of the country name.
C15_OneRowPerCountrySorted ==
    Aggregated =>
        /\ CountriesOf(aggregation_df) = CountriesOf(results_df)
        /\ Len(aggregation_df) = Cardinality(CountriesOf(results_df))
        /\ \A i, j \in DOMAIN aggregation_df :
              i < j => name_rank(aggregation_df[i].Country)
                           < name_rank(aggregation_df[j].Country)

\* C15 happens: puthon_task classified a record of Germany before one of
\* Austria, and the table per country has Austria first.
C15_Witness ==
    /\ Aggregated /\ script = "puthon"
    /\ Len(results_df) = 2
    /\ results_df[1].Country = "Germany" /\ results_df[2].Country = "Austria"
    /\ Len(aggregation_df) = 2
    /\ aggregation_df[1].Country = "Austria" /\ aggregation_df[2].Country = "Germany"

\* C16: in every row of the table per country, hit count plus miss count is
\* the number of classified records of that country.
C16_HitPlusMissIsTotal ==
    Aggregated =>
        \A k \in DOMAIN aggregation_df :
            aggregation_df[k].Hit_count + aggregation_df[k].Miss_count
                = Cardinality({i \in DOMAIN results_df :
                                  results_df[i].Country = aggregation_df[k].Country})

\* C16 happens: a country has a Hit and a Miss among its records, one of them
\* a record without lead time, and another country has records too.
C16_Witness ==
    /\ Aggregated /\ script = "lenovo"
    /\ Len(aggregation_df) = 2
    /\ \E k \in DOMAIN aggregation_df :
          aggregation_df[k].Hit_count = 1 /\ aggregation_df[k].Miss_count = 1
    /\ \E i \in DOMAIN results_df : results_df[i].LeadTime = NaN

\* the rows of a status a country has among the classified records
RowsWithStatus(country_name, status) ==
    Cardinality({i \in DOMAIN results_df :
                    results_df[i].Country = country_name /\ results_df[i].Status = status})

Distance(x, y) == IF x < y THEN y - x ELSE x - y

\* C17: the hit rate of a row is hit / (hit + miss) * 100 rounded to two
\* decimals: no number with two decimals is nearer to it; it is 0 when hit
\* and miss are both 0, and 70.0 for 7 Hit and 3 Miss.
C17_HitRateRounded ==
    /\ hit_rate(0, 0) = Num(0)
    /\ Aggregated =>
          \A k \in DOMAIN aggregation_df :
              LET hit == RowsWithStatus(aggregation_df[k].Country, "Hit")
                  miss == RowsWithStatus(aggregation_df[k].Country, "Miss")
                  rate == aggregation_df[k].Hit_rate
              IN  /\ hit + miss = 0 => rate = Num(0)
                  /\ hit + miss > 0 =>
                        \E r \in rate :
                            2 * Distance(r * (hit + miss), PercentHundredths * hit)
                                <= hit + miss
                  /\ (hit = 7 /\ miss = 3) => rate = Num(7000)

\* C17 happens: Austria has 7 Hit and 3 Miss and its row says 70.0.
C17_Witness ==
    /\ Aggregated /\ script = "lenovo"
    /\ \E k \in DOMAIN aggregation_df :
          /\ aggregation_df[k].Country = "Austria"
          /\ aggregation_df[k].Hit_count = 7 /\ aggregation_df[k].Miss_count = 3
          /\ aggregation_df[k].Hit_rate = Num(7000)
    /\ RowsWithStatus("Austria", "Hit") = 7
    /\ RowsWithStatus("Austria", "Miss") = 3

\* the rows of a table that are not of a country
RowsOfOthers(table, country_name) == SelectSeq(table, LAMBDA r : r.Country # country_name)

\* the country has no row in the LeadTimes table
NoLeadTimeFor(country_name) ==
    \A i \in DOMAIN lead_times_df : lead_times_df[i].Country # country_name

\* C18: a country without lead time does not end the run (a run fails only
\* before the merge), and the classified rows and aggregate rows of the other
\* countries are what they are when that country has a lead time, whichever.
C18_MissingLeadTimeIsLocal ==
    /\ pc = "failed" => results_df = None
    /\ Aggregated =>
          \A c \in CountriesOf(results_df) :
              NoLeadTimeFor(c) =>
                  \A v \in LeadValues :
                      LET leads == Append(lead_times_df,
                                          [Country |-> c, CountryCode |-> FileCountryCode(c),
                                           LeadTime |-> v])
                          results == classify(script, repair_data, leads)
                      IN  /\ RowsOfOthers(results, c) = RowsOfOthers(results_df, c)
                          /\ RowsOfOthers(aggregate(script, results), c)
                                = RowsOfOthers(aggregation_df, c)

\* C18 happens: the run of lenovo_task reached the end of Task 3e with a
\* record of Poland, which has no lead time, and a Hit of Austria.
C18_Witness ==
    /\ Aggregated /\ script = "lenovo"
    /\ NoLeadTimeFor("Poland")
    /\ \E i \in DOMAIN results_df :
          /\ results_df[i].Country = "Poland"
          /\ results_df[i].LeadTime = NaN /\ results_df[i].Status = "Miss"
    /\ \E k \in DOMAIN aggregation_df :
          /\ aggregation_df[k].Country = "Austria"
          /\ aggregation_df[k].Hit_count = 1 /\ aggregation_df[k].Miss_count = 0

---------------------------------------------------------------------------
(* Claims on state kept between calls *)

\* C19: the holiday lookup of RepairAnalysisEngine, built when the engine is
\* made, is changed by no step of lenovo_task: not by the calculations, the
\* merge, the classification or the aggregation.
C19_LookupNeverModified ==
    [][script = "lenovo" => holiday_set_by_country' = holiday_set_by_country]_vars

\* C19 happens: lenovo_task has counted a record of Austria, merged,
\* classified and aggregated, and the lookup is the one built from the
\* holiday table, with 2020-01-01 for AT.
C19_Witness ==
    /\ pc = "save" /\ script = "lenovo"
    /\ \E i \in DOMAIN results_df : results_df[i].Country = "Austria"
    /\ holiday_set_by_country = prepare_holiday_lookup(holidays_df)
    /\ holiday_set_by_country["AT"] = {0}

\* two calls of the same function with the same interval and country
SameArguments(a, b) ==
    /\ a.fn = b.fn
    /\ a.start = b.start /\ a.end = b.end
    /\ a.country = b.country

\* what the function of a call returns for its interval and country when it
\* is the first call made on the holiday table
AsFirstCall(c) ==
    CASE c.fn = "lenovo" ->
           lenovo_calculate_business_days(prepare_holiday_lookup(holidays_df),
                                          c.start, c.end, c.country)
      [] c.fn = "puthon" ->
           calculate_business_days(holidays_df, c.start, c.end, c.country)

\* C20: a call returns what any other call of the same function with the same
\* interval and country returned, and what it returns when nothing was called
\* before it, whatever was called before or in between.
C20_SameArgumentsSameCount ==
    pc = "calls" =>
        /\ \A i, j \in DOMAIN history :
              SameArguments(history[i], history[j]) => history[i].result = history[j].result
        /\ \A i \in DOMAIN history : history[i].result = AsFirstCall(history[i])

\* C20 happens: the week of Austria with the holiday of 2020-01-01 is counted,
\* then a single day, then the same week again, with the same count of 4.
C20_Witness ==
    /\ pc = "calls"
    /\ Len(history) = 3
    /\ SameArguments(history[1], history[3])
    /\ ~SameArguments(history[1], history[2])
    /\ history[1].fn = "lenovo" /\ history[2].fn = "lenovo"
    /\ history[1].country = "Austria" /\ history[2].country = "Austria"
    /\ history[1].end = 6 /\ history[2].end = 0
    /\ history[1].result = 4 /\ history[3].result = 4

---------------------------------------------------------------------------
(* Claims on the order of the records *)

Reorderings(n) == {p \in [1..n -> 1..n] : \A i, j \in 1..n : i # j => p[i] # p[j]}
Permuted(table, p) == [i \in DOMAIN table |-> table[p[i]]]
RowBag(table) ==
    [r \in {table[i] : i \in DOMAIN table} |->
        Cardinality({i \in DOMAIN table : table[i] = r})]

\* Task 3b of lenovo_task or puthon_task on a RawData table
Recounted(s, raw) ==
    WithBusinessDays(raw,
        [i \in DOMAIN raw |->
            IF s = "lenovo"
            THEN lenovo_calculate_business_days(
                     holiday_set_by_country, raw[i].Start_Date, raw[i].End_Date,
                     raw[i].Country)
            ELSE calculate_business_days(
                     holidays_df, raw[i].Start_Date, raw[i].End_Date, raw[i].Country)])

\* C21: with the records of the RawData table in any other order, lenovo_task
\* and puthon_task give every record the same business-day count and the
\* same status, and the same table per country, rows in the same order.
C21_RecordOrderIrrelevant ==
    (Aggregated /\ script \in {"lenovo", "puthon"}) =>
        \A p \in Reorderings(Len(repair_data)) :
            LET counted == Recounted(script, Permuted(repair_data, p))
                results == classify(script, counted, lead_times_df)
            IN  /\ counted = Permuted(repair_data, p)
                /\ RowBag(results) = RowBag(results_df)
                /\ aggregate(script, results) = aggregation_df

\* C21 happens: lenovo_task processed a record of Poland before a record of
\* Austria, and the table per country has Austria first.
C21_Witness ==
    /\ Aggregated /\ script = "lenovo"
    /\ Len(repair_data) = 2
    /\ repair_data[1].Country = "Poland" /\ repair_data[2].Country = "Austria"
    /\ repair_data[1].BusinessDays # repair_data[2].BusinessDays
    /\ Len(aggregation_df) = 2
    /\ aggregation_df[1].Country = "Austria" /\ aggregation_df[2].Country = "Poland"

\* C22: Task 3e of lenovo_task and of puthon_task leaves the classified
\* records as they are: the same rows, with the same country, business-day
\* count, lead time and status, none added and none removed.
C22_AggregationKeepsRecords ==
    [][(pc = "aggregate" /\ script \in {"lenovo", "puthon"}) => results_df' = results_df]_vars

\* C22 happens: Task 3e of lenovo_task has run on a record without lead time
\* and a record with one, and both are in the classified records as Task 3d
\* left them.
C22_Witness ==
    /\ Aggregated /\ script = "lenovo"
    /\ Len(aggregation_df) = 2
    /\ Len(results_df) = 2
    /\ results_df[1].LeadTime = NaN /\ results_df[2].LeadTime # NaN
    /\ results_df = classify(script, repair_data, lead_times_df)

---------------------------------------------------------------------------
(* Claims on the three functions side by side *)

\* C24: for every start and end date, every mapped country and the same
\* holiday table, the function called returns what each of the three
\* functions returns, on either numpy.
C24_VariantsAgree ==
    (Called /\ country \in DOMAIN COUNTRY_MAPPING) =>
        /\ call.result = lenovo_calculate_business_days(
                             prepare_holiday_lookup(holidays_df), start_date, end_date,
                             country)
        /\ call.result = calculate_business_days(holidays_df, start_date, end_date, country)
        /\ \A shifted \in BOOLEAN :
              call.result = business_days(drop_duplicates(holidays_df), shifted,
                                          start_date, end_date, FileCountryCode(country))

\* C24 fails: for Slovakia from 2020-01-03 back to 2020-01-01
\* python_task_solution returns a negative count where lenovo_task returns 0.
C24_SolutionDiffersOnReversedInterval ==
    /\ call.fn = "solution"
    /\ country = "Slovakia" /\ start_date = 2 /\ end_date = 0
    /\ call.result < 0
    /\ lenovo_calculate_business_days(holiday_set_by_country, start_date, end_date,
                                      country) = 0
    /\ calculate_business_days(holidays_df, start_date, end_date, country) = 0

---------------------------------------------------------------------------
(* Claims on the merge *)

\* the LeadTimes table has at most one row for a country
OneLeadTimePerCountry ==
    \A i, j \in DOMAIN lead_times_df :
        lead_times_df[i].Country = lead_times_df[j].Country => i = j

RECURSIVE SumOfCounts(_, _)
SumOfCounts(table, k) ==
    IF k > Len(table) THEN 0
    ELSE table[k].Hit_count + table[k].Miss_count + SumOfCounts(table, k + 1)

\* C29: when the LeadTimes table has at most one row per country, the
\* classified records are the repair records row for row, those without a
\* lead time included, and the hit and miss counts of the table per country
\* add up to the number of repair records.
C29_MergeConservesRecords ==
    (Aggregated /\ OneLeadTimePerCountry) =>
        /\ Len(results_df) = Len(repair_data)
        /\ \A i \in DOMAIN results_df :
              /\ results_df[i].Country = repair_data[i].Country
              /\ results_df[i].Start_Date = repair_data[i].Start_Date
              /\ results_df[i].End_Date = repair_data[i].End_Date
              /\ results_df[i].BusinessDays = repair_data[i].BusinessDays
        /\ SumOfCounts(aggregation_df, 1) = Len(repair_data)

\* C29 happens: two records are loaded, one of a country with a lead time
\* and one of a country without, and the counts add up to 2.
C29_Witness ==
    /\ Aggregated /\ script = "puthon"
    /\ OneLeadTimePerCountry
    /\ Len(repair_data) = 2 /\ Len(lead_times_df) = 2
    /\ \E i \in DOMAIN results_df : results_df[i].LeadTime = NaN
    /\ \E i \in DOMAIN results_df : results_df[i].LeadTime # NaN
    /\ Len(aggregation_df) = 2
    /\ SumOfCounts(aggregation_df, 1) = 2

---------------------------------------------------------------------------
(* Claims on intervals side by side *)

\* C30: for dates a <= b < c, a mapped country and one holiday table, the
\* count of [a, c] is the count of [a, b] plus the count of [b+1, c], and is
\* at most the number of days c - a + 1.
C30_AdditiveOverAdjacentIntervals ==
    (pc = "split" /\ Len(history) = 3) =>
        /\ history[1].result = history[2].result + history[3].result
        /\ history[1].result <= end_date - start_date + 1

\* C30 happens: the week of Austria from 2020-01-01, with holidays on
\* 2020-01-01 and 2020-01-06, counts 3 days: 2 up to 2020-01-03 and 1 after.
C30_Witness ==
    /\ pc = "split" /\ Len(history) = 3
    /\ history[1].fn = "solution"
    /\ country = "Austria" /\ start_date = 0 /\ end_date = 6
    /\ history[2].end = 2 /\ history[3].start = 3
    /\ history[1].result = 3 /\ history[2].result = 2 /\ history[3].result = 1

---------------------------------------------------------------------------
(* Claims on the fetch of the holiday table *)

\* the API answers every request with HTTP 200 and some holiday is Public
ApiSucceeds ==
    /\ \A c \in DOMAIN api_responses : api_responses[c].outcome = "ok"
    /\ \E c \in DOMAIN api_responses :
          \E k \in DOMAIN api_responses[c].holidays : is_public(api_responses[c].holidays[k])

\* the Public holidays of the answers, in the order of the requests
PublicOfApi ==
    SelectSeq(api_responses["AT"].holidays, is_public)
        \o SelectSeq(api_responses["SK"].holidays, is_public)

SomeRequestFails ==
    \E c \in DOMAIN api_responses : api_responses[c].outcome # "ok"

\* C27: when a request fails, fetch_from_api of lenovo_task and
\* fetch_holidays_from_api of puthon_task return None, whatever the other
\* requests gave; the holiday table in use is then the table of the CSV
\* source as a whole, and holds the API holidays only when every request
\* was answered.
C27_ApiAllOrNothing ==
    (script \in {"lenovo", "puthon"} /\ pc # "fetch") =>
        /\ SomeRequestFails =>
              /\ fetch_from_api(api_responses) = NoFrame
              /\ fetch_holidays_from_api(api_responses) = NoFrame
        /\ (SomeRequestFails /\ pc = "fetched" /\ script = "lenovo") =>
              csv_file = File(holidays_df)
        /\ (SomeRequestFails /\ pc = "fetched" /\ script = "puthon") =>
              holidays_df = csv_data
        /\ (pc = "fetched" /\ script = "lenovo") =>
              \/ ~SomeRequestFails /\ holidays_df = PublicOfApi
              \/ csv_file = File(holidays_df)
        /\ (pc = "fetched" /\ script = "puthon") =>
              \/ ~SomeRequestFails /\ holidays_df = PublicOfApi
              \/ holidays_df = csv_data

\* C27 happens: the request for AT gave a Public holiday, the request for SK
\* failed, and the table in use is the one of the CSV file, without the
\* holiday of AT.
C27_Witness ==
    /\ script = "lenovo" /\ pc = "fetched"
    /\ api_responses["AT"].outcome = "ok" /\ api_responses["AT"].holidays # <<>>
    /\ is_public(api_responses["AT"].holidays[1])
    /\ api_responses["SK"].outcome = "http_error"
    /\ csv_file = File(holidays_df)
    /\ \A i \in DOMAIN holidays_df : holidays_df[i] # api_responses["AT"].holidays[1]

\* self.data and the files written before call i
BeforeCall(i) ==
    IF i = 1 THEN [data |-> NoFrame, files |-> {}]
    ELSE [data |-> history[i - 1].data, files |-> history[i - 1].files]

\* a call of fetch_holidays up to call i returned a table
FetchSucceededUpTo(i) ==
    \E j \in 1..i : history[j].fn = "fetch_holidays" /\ history[j].raised = NoException

\* C28: in any sequence of calls of fetch_holidays and save_holidays, data
\* is None until a fetch_holidays returned a table; a fetch_holidays that
\* raises leaves data as it was; save_holidays while data is None raises
\* ValueError and writes no file; a file is written only after a
\* fetch_holidays returned a table.
C28_DataNoneUntilFetchSucceeds ==
    pc = "fetcher" =>
        \A i \in DOMAIN history :
            /\ ~FetchSucceededUpTo(i) => history[i].data = NoFrame
            /\ (history[i].fn = "fetch_holidays" /\ history[i].raised # NoException)
                  => history[i].data = BeforeCall(i).data
            /\ (history[i].fn = "save_holidays" /\ BeforeCall(i).data = NoFrame)
                  => /\ history[i].raised = "ValueError"
                     /\ history[i].files = BeforeCall(i).files
            /\ history[i].files # {} => FetchSucceededUpTo(i)
            /\ i = Len(history) => (data = history[i].data /\ files = history[i].files)

\* C28 happens: save_holidays raised ValueError on the new fetcher, then a
\* fetch returned the table of the CSV file, then a fetch raised with the API
\* and the file gone, and the data is still that table.
C28_Witness ==
    /\ pc = "fetcher" /\ Len(history) = 3
    /\ history[1].fn = "save_holidays" /\ history[1].raised = "ValueError"
    /\ history[2].fn = "fetch_holidays" /\ history[2].raised = NoException
    /\ history[3].fn = "fetch_holidays" /\ history[3].raised = "RuntimeError"
    /\ data = history[2].data /\ data # NoFrame
    /\ files = {}

\* the positions of main in Task 3, in the order of its statements: before
\* each of the six steps, and after the last
Task3Positions ==
    <<"load", "business_days", "merge", "hit_miss", "aggregate", "save", "done">>

Task3Rank(p) == CHOOSE k \in DOMAIN Task3Positions : Task3Positions[k] = p

\* x is None and not a table (told apart by how the two are written, a
\* table and None being values of different kinds)
IsNone(x) == ToString(x) = ToString(None)

\* at a position, the steps before it have left what they make and the
\* steps after it have made nothing yet
CompletedBefore(p) ==
    LET k == Task3Rank(p)
    IN  /\ (k > 1) = ~IsNone(repair_data)
        /\ k > 1 => \A i \in DOMAIN repair_data :
                       (k > 2) = ("BusinessDays" \in DOMAIN repair_data[i])
        /\ (k > 3) = ~IsNone(results_df)
        /\ k > 3 => \A i \in DOMAIN results_df :
                       (k > 4) = ("Status" \in DOMAIN results_df[i])
        /\ (k > 5) = ~IsNone(aggregation_df)
        /\ (k > 6) = (OUTPUT_AGGREGATION_FILE \in files)
        /\ (k > 6) = (OUTPUT_RESULTS_FILE \in files)

FetchRaisedInMain ==
    /\ script = "lenovo"
    /\ pc \in {"main_total", "main_task2", "main_task3", "crashed", "failed", "main_end"}
          \cup {Task3Positions[k] : k \in DOMAIN Task3Positions}
    /\ IsNone(holidays_df)

\* C26: in main of lenovo_task, when fetch_holidays has raised the failure
\* is printed, no exception is left uncaught, and holidays_df is not read
\* while it was never assigned.
C26_FetchFailureHandled ==
    FetchRaisedInMain =>
        /\ FetchFailure \in {history[i] : i \in DOMAIN history}
        /\ raised # "UnboundLocalError"
        /\ pc # "crashed"

=============================================================================
